---- MODULE Spec2Model ----
(***************************************************************************)
(* Model of the command interpreter of ceng322_pa2.c: the read loop of     *)
(* main, the history buffer, the classifier of process_command_line, the   *)
(* builtin dispatcher, and the process orchestration (fork / exec / pipe / *)
(* waitpid) together with the child processes the interpreter creates.     *)
(*                                                                         *)
(* A raw line is represented by the sequence of its whitespace-separated   *)
(* tokens (what the strtok loop of process_command_line iterates over).    *)
(* Standard input is a fixed finite sequence of lines chosen by Init.      *)
(***************************************************************************)
EXTENDS Integers, Sequences, FiniteSets, TLC

\* ------------------------------------------------------------------ bounds
MaxTokens == 4        \* longest line (in tokens) of the one-line inputs
MaxHistLines == 12    \* longest input of the history runs
MaxSession == 2       \* longest input of the mixed sessions
MaxBytes == 2         \* most bytes a pipeline's first program writes
MaxCdLines == 3       \* longest input of the directory sessions
MaxLongWords == 11    \* most words on one side of a long line

\* ------------------------------------------------------- program constants
MAX_ARGS == 11
HISTORY_SIZE == 10
EXIT_FAILURE == 1
STDIN_EOF == 0        \* status main returns with on end of input

NULL == "<NULL>"
UNINIT == "<uninit>"

Builtins == {"cd", "pwd", "history", "exit"}
Operators == {"&", "|", "&&"}

\* ------------------------------------------------------------ input alphabet
\* Three families of inputs: every single line of up to MaxTokens tokens,
\* runs of builtin lines long enough to fill and shift the history, and
\* short sessions of several lines (background children outlive their line).
\* All lines stay within the capacity MAX_ARGS of the argument arrays.
Alphabet == {"a", "cd", "pwd", "history", "exit", "|", "&&", "&"}

RECURSIVE SeqsUpTo(_, _)
SeqsUpTo(S, n) ==
    IF n = 0 THEN {<<>>}
    ELSE LET shorter == SeqsUpTo(S, n - 1)
         IN  shorter \cup {Append(s, x) : s \in {t \in shorter : Len(t) = n - 1}, x \in S}

Lines == SeqsUpTo(Alphabet, MaxTokens)
HistLines == {<<"history">>, <<"pwd">>}
SessionLines == {<<>>, <<"a">>, <<"a", "&">>, <<"a", "|">>, <<"a", "&&", "a">>,
                 <<"cd">>, <<"cd", "a">>, <<"cd", "/tmp">>, <<"exit">>}

CdLines == {<<"cd">>, <<"cd", "a">>, <<"cd", "..">>, <<"cd", "/tmp">>, <<"pwd">>}

OneLineInputs == {<<l>> : l \in Lines}
CdInputs == SeqsUpTo(CdLines, MaxCdLines)
HistoryInputs == SeqsUpTo(HistLines, MaxHistLines)
SessionInputs == SeqsUpTo(SessionLines, MaxSession)
\* long lines: one side has as many words as a list holds with its end
\* marker (MAX_ARGS - 1) or more
LongWords(n) == [k \in 1..n |-> "a"]
LongLines ==
    UNION {{LongWords(n),
            LongWords(n) \o <<"|", "a">>,
            <<"a", "|">> \o LongWords(n),
            LongWords(n) \o <<"&&", "a">>,
            <<"a", "&&">> \o LongWords(n)} : n \in (MAX_ARGS - 1)..MaxLongWords}
LongInputs == {<<l>> : l \in LongLines}

Inputs == OneLineInputs \cup HistoryInputs \cup SessionInputs \cup CdInputs

\* ------------------------------------------------------------------ state
VARIABLES
    input,       \* the lines standard input delivers, in order
    rd,          \* number of lines fgets has returned so far
    pc,          \* position of the interpreter process
    exitStatus,  \* exit status of the interpreter, -1 while it runs
    history,     \* history[1..history_count]
    cmd,         \* locals of process_command_line after the token loop
    stage,       \* which call of run_sequence_command is active
    rscPid,      \* pid of run_sequence_command
    pid1, pid2,  \* pids of the pipeline branch, 0 before the fork
    pfd,         \* pipe ends the interpreter holds open
    children,    \* process table: children[pid]
    pipebuf,     \* bytes in the pipe
    forks,       \* fork calls of the current line: [role, args, pid]
    reported,    \* what the interpreter printed while processing the line
    cwd, envPWD, HOME

vars == <<input, rd, pc, exitStatus, history, cmd, stage, rscPid, pid1, pid2,
          pfd, children, pipebuf, forks, reported, cwd, envPWD, HOME>>

\* ------------------------------------------------------------- history
\* add_to_history without the shift: a full buffer only overwrites its last entry
AddToHistoryNoShift(h, command) ==
    IF Len(h) = HISTORY_SIZE
    THEN [h EXCEPT ![HISTORY_SIZE] = command]
    ELSE Append(h, command)

\* add_to_history: shift when full, else append
AddToHistory(h, command) ==
    IF Len(h) = HISTORY_SIZE
    THEN [k \in 1..HISTORY_SIZE |-> IF k < HISTORY_SIZE THEN h[k + 1] ELSE command]
    ELSE Append(h, command)

\* the listing printed by the history builtin: <<number, line>> pairs
HistoryListing(h) ==
    LET count == IF Len(h) > HISTORY_SIZE THEN HISTORY_SIZE ELSE Len(h)
    IN  [k \in 1..count |-> <<k, h[k]>>]

\* ------------------------------------------------------------- classifier
EmptyArgs == [k \in 0..(MAX_ARGS - 1) |-> UNINIT]

\* a store into a char *x[MAX_ARGS]; an index outside the array is recorded in oob
Store(arr, idx, v) == IF idx \in DOMAIN arr THEN [arr EXCEPT ![idx] = v] ELSE arr

ScanInit ==
    [i |-> 0, j |-> 0, in_pipe |-> FALSE, background |-> FALSE,
     has_second_command |-> FALSE, brk |-> FALSE, oob |-> FALSE,
     left_args |-> EmptyArgs, right_args |-> EmptyArgs, second_command |-> EmptyArgs]

\* the token loop with an & that ends the scan but does not set background
ScanTokenNoBackground(s, token) ==
    IF token = "&" /\ ~s.in_pipe /\ ~s.has_second_command
    THEN [s EXCEPT !.brk = TRUE]
    ELSE IF token = "|"
    THEN [s EXCEPT !.in_pipe = TRUE,
                   !.left_args = Store(s.left_args, s.j, NULL),
                   !.j = 0]
    ELSE IF token = "&&"
    THEN [s EXCEPT !.left_args = Store(s.left_args, s.j, NULL),
                   !.i = 0,
                   !.has_second_command = TRUE]
    ELSE IF s.in_pipe
    THEN [s EXCEPT !.right_args = Store(s.right_args, s.j, token), !.j = s.j + 1]
    ELSE IF s.has_second_command
    THEN [s EXCEPT !.second_command = Store(s.second_command, s.i, token), !.i = s.i + 1]
    ELSE [s EXCEPT !.left_args = Store(s.left_args, s.j, token), !.j = s.j + 1]

\* one iteration of the while loop over the tokens
ScanToken(s, token) ==
    IF token = "&" /\ ~s.in_pipe /\ ~s.has_second_command
    THEN [s EXCEPT !.background = TRUE, !.brk = TRUE]
    ELSE IF token = "|"
    THEN [s EXCEPT !.in_pipe = TRUE,
                   !.left_args = Store(s.left_args, s.j, NULL),
                   !.oob = s.oob \/ s.j >= MAX_ARGS,
                   !.j = 0]
    ELSE IF token = "&&"
    THEN [s EXCEPT !.left_args = Store(s.left_args, s.j, NULL),
                   !.oob = s.oob \/ s.j >= MAX_ARGS,
                   !.i = 0,
                   !.has_second_command = TRUE]
    ELSE IF s.in_pipe
    THEN [s EXCEPT !.right_args = Store(s.right_args, s.j, token),
                   !.oob = s.oob \/ s.j >= MAX_ARGS,
                   !.j = s.j + 1]
    ELSE IF s.has_second_command
    THEN [s EXCEPT !.second_command = Store(s.second_command, s.i, token),
                   !.oob = s.oob \/ s.i >= MAX_ARGS,
                   !.i = s.i + 1]
    ELSE [s EXCEPT !.left_args = Store(s.left_args, s.j, token),
                   !.oob = s.oob \/ s.j >= MAX_ARGS,
                   !.j = s.j + 1]

RECURSIVE ScanFrom(_, _, _)
ScanFrom(s, tokens, k) ==
    IF k > Len(tokens) \/ s.brk THEN s
    ELSE ScanFrom(ScanToken(s, tokens[k]), tokens, k + 1)

\* the three stores after the loop
ScanFinish(s) ==
    [s EXCEPT !.left_args = Store(s.left_args, s.j, NULL),
              !.right_args = Store(s.right_args, s.j, NULL),
              !.second_command = Store(s.second_command, s.i, NULL),
              !.oob = s.oob \/ s.j >= MAX_ARGS \/ s.i >= MAX_ARGS]

\* the argument vector execvp sees: the entries before the first NULL
RECURSIVE ArgvFrom(_, _)
ArgvFrom(arr, k) ==
    IF k >= MAX_ARGS \/ arr[k] = NULL THEN <<>>
    ELSE <<arr[k]>> \o ArgvFrom(arr, k + 1)

Classify(tokens) ==
    LET s == ScanFinish(ScanFrom(ScanInit, tokens, 1))
    IN  [left |-> ArgvFrom(s.left_args, 0),
         right |-> ArgvFrom(s.right_args, 0),
         second |-> ArgvFrom(s.second_command, 0),
         in_pipe |-> s.in_pipe,
         background |-> s.background,
         has_second_command |-> s.has_second_command,
         oob |-> s.oob]

NoCmd == Classify(<<>>)

\* What process_command_line goes on with after the scan. A store outside an
\* array is undefined: the arrays and the five int locals share one stack
\* frame, so the store may hit nothing that is read again or any of the
\* flags; that it may also end the process is the second branch of ReadLine.
AfterScan(tokens) ==
    LET c == Classify(tokens)
    IN  IF c.oob
        THEN {[c EXCEPT !.in_pipe = p, !.background = b, !.has_second_command = h] :
                 p \in BOOLEAN, b \in BOOLEAN, h \in BOOLEAN}
        ELSE {c}

\* ------------------------------------------------------------- wait status
\* the status word waitpid stores: exit code in bits 8..15, signal in bits 0..6
ExitCodes == {0, 1}
Signals == {9}                \* a program killed from outside (SIGKILL)
StatusExited(code) == (code % 256) * 256
StatusSignaled(sig) == sig
SigPipe == StatusSignaled(13) \* a writer killed for writing to a pipe nobody reads
AllStatuses == {StatusExited(x) : x \in ExitCodes \cup {EXIT_FAILURE}}
               \cup {StatusSignaled(x) : x \in Signals} \cup {SigPipe}
WIFEXITED(status) == status % 128 = 0
WEXITSTATUS(status) == (status \div 256) % 256

\* ------------------------------------------------------------- processes
NewChild(role, args) ==
    [role |-> role, args |-> args, line |-> rd, st |-> "forked", status |-> -1,
     execd |-> FALSE, err |-> FALSE,
     r |-> "r" \in pfd, w |-> "w" \in pfd,
     written |-> 0, got |-> <<>>, eof |-> FALSE]

Pids == 1..Len(children)
Terminated(p) == children[p].st \in {"zombie", "reaped"}
Report(kind, val) == [kind |-> kind, val |-> val]

\* ------------------------------------------------------------- builtins
\* A directory is the sequence of its components below the root; the text
\* of a path is a string. The kernel resolves a path component by component.
Dirs == {<<>>, <<"home">>, <<"tmp">>, <<"home", "a">>}
AbsolutePaths == {"/tmp"}
IsAbsolute(arg) == arg \in AbsolutePaths
HomeDir == <<"home">>

\* the components of an argument of cd
ArgComponents(arg) ==
    IF arg = "/tmp" THEN <<"tmp">>
    ELSE IF arg = "/home" THEN <<"home">>
    ELSE <<arg>>

\* getcwd: the canonical text of the working directory
RECURSIVE PathText(_)
PathText(dir) == IF dir = <<>> THEN "" ELSE "/" \o Head(dir) \o PathText(Tail(dir))
GetCwd(dir) == IF dir = <<>> THEN "/" ELSE PathText(dir)

\* the directory chdir reaches from dir along comps, <<NULL>> if a step fails
RECURSIVE Walk(_, _)
Walk(dir, comps) ==
    IF dir \notin Dirs THEN <<NULL>>
    ELSE IF comps = <<>> THEN dir
    ELSE IF Head(comps) \in {"", "."} THEN Walk(dir, Tail(comps))
    ELSE IF Head(comps) = ".."
    THEN Walk(IF dir = <<>> THEN dir ELSE SubSeq(dir, 1, Len(dir) - 1), Tail(comps))
    ELSE Walk(Append(dir, Head(comps)), Tail(comps))

\* change_directory: the possible results [cwd, pwd, rep]
ChangeDirectory(args) ==
    LET stay(rep) == [cwd |-> cwd, pwd |-> envPWD, rep |-> rep]
        chdir(from, comps, path) ==
            IF Walk(from, comps) \in Dirs
            THEN {[cwd |-> Walk(from, comps), pwd |-> path, rep |-> <<>>]}
            ELSE {stay(<<Report("perror", "chdir")>>)}
    IN  IF Len(args) < 2
        THEN IF HOME = NULL
             THEN {stay(<<Report("stderr", "HOME environment variable not set")>>)}
             ELSE chdir(<<>>, ArgComponents(HOME), HOME)
        ELSE IF IsAbsolute(args[2])
             THEN chdir(<<>>, ArgComponents(args[2]), args[2])
             ELSE {stay(<<Report("perror", "getcwd")>>)}
                  \cup chdir(cwd, ArgComponents(args[2]), GetCwd(cwd) \o "/" \o args[2])

\* execute_builtin_command: the possible results [cwd, pwd, rep, exit]
ExecuteBuiltinCommand(args, h) ==
    IF args[1] = "cd"
    THEN {[cwd |-> x.cwd, pwd |-> x.pwd, rep |-> x.rep, exit |-> FALSE] :
            x \in ChangeDirectory(args)}
    ELSE IF args[1] = "pwd"
    THEN {[cwd |-> cwd, pwd |-> envPWD, rep |-> <<Report("pwd", GetCwd(cwd))>>, exit |-> FALSE],
          [cwd |-> cwd, pwd |-> envPWD, rep |-> <<>>, exit |-> FALSE]}
    ELSE IF args[1] = "history"
    THEN {[cwd |-> cwd, pwd |-> envPWD,
           rep |-> <<Report("history", HistoryListing(h))>>, exit |-> FALSE]}
    ELSE IF args[1] = "exit"
    THEN {[cwd |-> cwd, pwd |-> envPWD, rep |-> <<Report("stdout", "Exiting...")>>,
           exit |-> TRUE]}
    ELSE {[cwd |-> cwd, pwd |-> envPWD, rep |-> <<>>, exit |-> FALSE]}

IsBuiltinLine(c) == c.left # <<>> /\ c.left[1] \in Builtins

\* ------------------------------------------------------------- main loop
\* HOME is unset only in the sessions, the inputs that run cd more than once
Init ==
    /\ input \in Inputs
    /\ HOME \in (IF input \in SessionInputs \cup CdInputs THEN {NULL, "/home"}
                 ELSE {"/home"})
    /\ rd = 0
    /\ pc = "prompt"
    /\ exitStatus = -1
    /\ history = <<>>
    /\ cmd = NoCmd
    /\ stage = "none"
    /\ rscPid = 0
    /\ pid1 = 0
    /\ pid2 = 0
    /\ pfd = {}
    /\ children = <<>>
    /\ pipebuf = <<>>
    /\ forks = <<>>
    /\ reported = <<>>
    /\ cwd = HomeDir
    /\ envPWD = "/home"

\* fgets returns NULL: main returns 0
EndOfInput ==
    /\ pc = "prompt"
    /\ rd = Len(input)
    /\ pc' = "exited"
    /\ exitStatus' = STDIN_EOF
    /\ UNCHANGED <<input, rd, history, cmd, stage, rscPid, pid1, pid2, pfd, children,
                   pipebuf, forks, reported, cwd, envPWD, HOME>>

\* fgets returns a line: process_command_line up to the choice of the branch
ReadLine ==
    /\ pc = "prompt"
    /\ rd < Len(input)
    /\ LET command == input[rd + 1]
           h == AddToHistory(history, command)
       IN  /\ rd' = rd + 1
           /\ history' = h
           /\ forks' = <<>>
           /\ rscPid' = 0
           /\ pid1' = 0
           /\ pid2' = 0
           /\ \/ \E c \in AfterScan(command) :
                  /\ cmd' = c
                  /\ IF IsBuiltinLine(c)
                     THEN \E x \in ExecuteBuiltinCommand(c.left, h) :
                            /\ cwd' = x.cwd
                            /\ envPWD' = x.pwd
                            /\ reported' = x.rep
                            /\ stage' = "none"
                            /\ pc' = IF x.exit THEN "exited" ELSE "prompt"
                            /\ exitStatus' = IF x.exit THEN 0 ELSE exitStatus
                     ELSE /\ reported' = <<>>
                          /\ pc' = IF c.in_pipe THEN "pipe" ELSE "rsc_fork"
                          /\ stage' = IF c.in_pipe THEN "none"
                                      ELSE IF c.has_second_command THEN "left"
                                      ELSE "single"
                          /\ UNCHANGED <<cwd, envPWD, exitStatus>>
              \/ /\ Classify(command).oob
                 /\ cmd' = Classify(command)
                 /\ pc' = "crashed"
                 /\ reported' = <<>>
                 /\ stage' = "none"
                 /\ UNCHANGED <<cwd, envPWD, exitStatus>>
    /\ UNCHANGED <<input, pfd, children, pipebuf, HOME>>

\* ------------------------------------------------------------- waitpid
\* waitpid(pid, ., 0): the children it can reap now; {0} stands for an
\* immediate error return (ECHILD); the empty set means the caller blocks.
\* pid = -1 (a failed fork's return value) waits for any child.
WaitPid(pid) ==
    IF pid = -1
    THEN IF \A p \in Pids : children[p].st = "reaped" THEN {0}
         ELSE {p \in Pids : children[p].st = "zombie"}
    ELSE IF pid \notin Pids \/ children[pid].st = "reaped" THEN {0}
    ELSE IF children[pid].st = "zombie" THEN {pid}
    ELSE {}

Reap(p) == IF p = 0 THEN children ELSE [children EXCEPT ![p].st = "reaped"]

\* ------------------------------------------------------------- pipeline
\* pipe(pipefd)
PipeCreate ==
    /\ pc = "pipe"
    /\ \/ /\ pfd' = {"r", "w"}
          /\ pipebuf' = <<>>
          /\ pc' = "fork1"
          /\ UNCHANGED reported
       \/ /\ reported' = Append(reported, Report("perror", "pipe"))
          /\ pc' = "prompt"
          /\ UNCHANGED <<pfd, pipebuf>>
    /\ UNCHANGED <<input, rd, exitStatus, history, cmd, stage, rscPid, pid1, pid2,
                   children, forks, cwd, envPWD, HOME>>

\* pid_t pid1 = fork(); the child's branch is ChildExec
Fork1 ==
    /\ pc = "fork1"
    /\ \/ /\ children' = Append(children, NewChild("pipe1", cmd.left))
          /\ pid1' = Len(children) + 1
       \/ /\ pid1' = -1
          /\ UNCHANGED children
    /\ forks' = Append(forks, [role |-> "pipe1", args |-> cmd.left, pid |-> pid1'])
    /\ pc' = "fork2"
    /\ UNCHANGED <<input, rd, exitStatus, history, cmd, stage, rscPid, pid2, pfd,
                   pipebuf, reported, cwd, envPWD, HOME>>

\* pid_t pid2 = fork()
Fork2 ==
    /\ pc = "fork2"
    /\ \/ /\ children' = Append(children, NewChild("pipe2", cmd.right))
          /\ pid2' = Len(children) + 1
       \/ /\ pid2' = -1
          /\ UNCHANGED children
    /\ forks' = Append(forks, [role |-> "pipe2", args |-> cmd.right, pid |-> pid2'])
    /\ pc' = "close"
    /\ UNCHANGED <<input, rd, exitStatus, history, cmd, stage, rscPid, pid1, pfd,
                   pipebuf, reported, cwd, envPWD, HOME>>

\* the parent closes the write end only and keeps the read end
ParentCloseKeepsReadEnd ==
    /\ pc = "close"
    /\ pfd' = pfd \ {"w"}
    /\ IF ~cmd.background
       THEN /\ pc' = "wait1"
            /\ UNCHANGED reported
       ELSE /\ pc' = "prompt"
            /\ reported' = Append(reported, Report("bgpipe", <<pid1, pid2>>))
    /\ UNCHANGED <<input, rd, exitStatus, history, cmd, stage, rscPid, pid1, pid2,
                   children, pipebuf, forks, cwd, envPWD, HOME>>

\* close(pipefd[0]); close(pipefd[1]); then wait or report
ParentClose ==
    /\ pc = "close"
    /\ pfd' = {}
    /\ IF ~cmd.background
       THEN /\ pc' = "wait1"
            /\ UNCHANGED reported
       ELSE /\ pc' = "prompt"
            /\ reported' = Append(reported, Report("bgpipe", <<pid1, pid2>>))
    /\ UNCHANGED <<input, rd, exitStatus, history, cmd, stage, rscPid, pid1, pid2,
                   children, pipebuf, forks, cwd, envPWD, HOME>>

\* waitpid(pid1, NULL, 0)
Wait1 ==
    /\ pc = "wait1"
    /\ \E p \in WaitPid(pid1) : children' = Reap(p)
    /\ pc' = "wait2"
    /\ UNCHANGED <<input, rd, exitStatus, history, cmd, stage, rscPid, pid1, pid2,
                   pfd, pipebuf, forks, reported, cwd, envPWD, HOME>>

\* the second wait aimed at the first child again
Wait2OnFirst ==
    /\ pc = "wait2"
    /\ \E p \in WaitPid(pid1) : children' = Reap(p)
    /\ pc' = "prompt"
    /\ UNCHANGED <<input, rd, exitStatus, history, cmd, stage, rscPid, pid1, pid2,
                   pfd, pipebuf, forks, reported, cwd, envPWD, HOME>>

\* waitpid(pid2, NULL, 0)
Wait2 ==
    /\ pc = "wait2"
    /\ \E p \in WaitPid(pid2) : children' = Reap(p)
    /\ pc' = "prompt"
    /\ UNCHANGED <<input, rd, exitStatus, history, cmd, stage, rscPid, pid1, pid2,
                   pfd, pipebuf, forks, reported, cwd, envPWD, HOME>>

\* ------------------------------------------------- run_sequence_command
\* only the program name reaches execvp
RscArgsNameOnly ==
    LET args == IF stage = "second" THEN cmd.second ELSE cmd.left
    IN  IF args = <<>> THEN <<>> ELSE <<args[1]>>

RscArgs == IF stage = "second" THEN cmd.second ELSE cmd.left

\* the secondary is run whatever the primary returned
AfterRscIgnoresStatus(ret) ==
    IF stage = "left"
    THEN /\ stage' = "second"
         /\ pc' = "rsc_fork"
    ELSE /\ stage' = "none"
         /\ pc' = "prompt"

\* the error sentinel of run_sequence_command ends the interpreter
AfterRscFatal(ret) ==
    IF ret = -1
    THEN /\ stage' = "none"
         /\ pc' = "exited"
    ELSE IF stage = "left" /\ ret = 0
    THEN /\ stage' = "second"
         /\ pc' = "rsc_fork"
    ELSE /\ stage' = "none"
         /\ pc' = "prompt"

\* what process_command_line does with the value run_sequence_command returns
AfterRsc(ret) ==
    IF stage = "left" /\ ret = 0
    THEN /\ stage' = "second"
         /\ pc' = "rsc_fork"
    ELSE /\ stage' = "none"
         /\ pc' = "prompt"

\* pid = fork() in run_sequence_command, and the branches that do not wait
RscFork ==
    /\ pc = "rsc_fork"
    /\ \/ \* fork failed
          /\ forks' = Append(forks, [role |-> stage, args |-> RscArgs, pid |-> -1])
          /\ reported' = Append(reported, Report("perror", "fork"))
          /\ AfterRsc(-1)
          /\ UNCHANGED <<children, rscPid>>
       \/ /\ children' = Append(children, NewChild(stage, RscArgs))
          /\ rscPid' = Len(children) + 1
          /\ forks' = Append(forks, [role |-> stage, args |-> RscArgs, pid |-> rscPid'])
          /\ IF cmd.background
             THEN /\ reported' = Append(reported, Report("bg", rscPid'))
                  /\ AfterRsc(0)
             ELSE /\ pc' = "rsc_wait"
                  /\ UNCHANGED <<reported, stage>>
    /\ UNCHANGED <<input, rd, exitStatus, history, cmd, pid1, pid2, pfd, pipebuf,
                   cwd, envPWD, HOME>>

\* waitpid(pid, &status, 0) and the value returned
RscReturn(status) == IF WIFEXITED(status) THEN WEXITSTATUS(status) ELSE 0

RscWait ==
    /\ pc = "rsc_wait"
    /\ \E p \in WaitPid(rscPid) :
         /\ children' = Reap(p)
         /\ \E status \in (IF p = 0 THEN AllStatuses ELSE {children[p].status}) :
              AfterRsc(RscReturn(status))
    /\ UNCHANGED <<input, rd, exitStatus, history, cmd, rscPid, pid1, pid2, pfd,
                   pipebuf, forks, reported, cwd, envPWD, HOME>>

\* ------------------------------------------------------------- children
Die(c, status) ==
    [c EXCEPT !.st = "zombie", !.status = status, !.r = FALSE, !.w = FALSE]

\* the second child execs without closing its copy of the write end
ChildExecKeepsWriteEnd(p) ==
    /\ children[p].st = "forked"
    /\ LET c == children[p]
           wired == [c EXCEPT !.r = (c.role = "pipe2" /\ c.r)]
       IN  \/ /\ c.args # <<>>
              /\ children' = [children EXCEPT ![p] = [wired EXCEPT !.st = "running",
                                                                   !.execd = TRUE]]
           \/ children' = [children EXCEPT
                             ![p] = Die([wired EXCEPT !.err = TRUE],
                                        StatusExited(EXIT_FAILURE))]
    /\ UNCHANGED <<input, rd, pc, exitStatus, history, cmd, stage, rscPid, pid1, pid2,
                   pfd, pipebuf, forks, reported, cwd, envPWD, HOME>>

\* a child whose execvp failed returns from process_command_line into the
\* read loop of main instead of exiting
ChildExecFallsThrough(p) ==
    /\ children[p].st = "forked"
    /\ LET c == children[p]
           wired == [c EXCEPT !.r = (c.role = "pipe2" /\ c.r),
                              !.w = (c.role = "pipe1" /\ c.w)]
       IN  \/ /\ c.args # <<>>
              /\ children' = [children EXCEPT ![p] = [wired EXCEPT !.st = "running",
                                                                   !.execd = TRUE]]
           \/ children' = [children EXCEPT
                             ![p] = [wired EXCEPT !.err = TRUE, !.st = "prompt"]]
    /\ UNCHANGED <<input, rd, pc, exitStatus, history, cmd, stage, rscPid, pid1, pid2,
                   pfd, pipebuf, forks, reported, cwd, envPWD, HOME>>

\* the child's branch after fork: the closes and dup2 of a pipeline child,
\* then execvp, which fails for a NULL program name and may fail otherwise
ChildExec(p) ==
    /\ children[p].st = "forked"
    /\ LET c == children[p]
           wired == [c EXCEPT !.r = (c.role = "pipe2" /\ c.r),
                              !.w = (c.role = "pipe1" /\ c.w)]
       IN  \/ /\ c.args # <<>>
              /\ children' = [children EXCEPT ![p] = [wired EXCEPT !.st = "running",
                                                                   !.execd = TRUE]]
           \/ children' = [children EXCEPT
                             ![p] = Die([wired EXCEPT !.err = TRUE],
                                        StatusExited(EXIT_FAILURE))]
    /\ UNCHANGED <<input, rd, pc, exitStatus, history, cmd, stage, rscPid, pid1, pid2,
                   pfd, pipebuf, forks, reported, cwd, envPWD, HOME>>

\* the exec'd program ends: exit(code) or death by a signal
ChildExit(p) ==
    /\ children[p].st = "running"
    /\ \E status \in {StatusExited(x) : x \in ExitCodes}
                     \cup {StatusSignaled(x) : x \in Signals} :
         children' = [children EXCEPT ![p] = Die(children[p], status)]
    /\ UNCHANGED <<input, rd, pc, exitStatus, history, cmd, stage, rscPid, pid1, pid2,
                   pfd, pipebuf, forks, reported, cwd, envPWD, HOME>>

ReadEndOpen == "r" \in pfd \/ \E q \in Pids : children[q].r
WriteEndOpen == "w" \in pfd \/ \E q \in Pids : children[q].w

\* the first program of a pipeline writes a byte to its standard output
ChildWrite(p) ==
    /\ children[p].st = "running"
    /\ children[p].role = "pipe1"
    /\ children[p].w
    /\ children[p].written < MaxBytes
    /\ IF ReadEndOpen
       THEN /\ pipebuf' = Append(pipebuf, children[p].written + 1)
            /\ children' = [children EXCEPT ![p].written = @ + 1]
       ELSE /\ children' = [children EXCEPT
                              ![p] = Die(children[p], SigPipe)]
            /\ UNCHANGED pipebuf
    /\ UNCHANGED <<input, rd, pc, exitStatus, history, cmd, stage, rscPid, pid1, pid2,
                   pfd, forks, reported, cwd, envPWD, HOME>>

\* the second program of a pipeline reads its standard input
ChildRead(p) ==
    /\ children[p].st = "running"
    /\ children[p].role = "pipe2"
    /\ children[p].r
    /\ ~children[p].eof
    /\ IF pipebuf # <<>>
       THEN /\ children' = [children EXCEPT ![p].got = Append(@, Head(pipebuf))]
            /\ pipebuf' = Tail(pipebuf)
       ELSE /\ ~WriteEndOpen
            /\ children' = [children EXCEPT ![p].eof = TRUE]
            /\ UNCHANGED pipebuf
    /\ UNCHANGED <<input, rd, pc, exitStatus, history, cmd, stage, rscPid, pid1, pid2,
                   pfd, forks, reported, cwd, envPWD, HOME>>

\* ------------------------------------------------------------- specification
Next ==
    \/ EndOfInput
    \/ ReadLine
    \/ PipeCreate
    \/ Fork1
    \/ Fork2
    \/ ParentClose
    \/ Wait1
    \/ Wait2
    \/ RscFork
    \/ RscWait
    \/ \E p \in Pids : ChildExec(p)
    \/ \E p \in Pids : ChildExit(p)
    \/ \E p \in Pids : ChildWrite(p)
    \/ \E p \in Pids : ChildRead(p)

Spec == Init /\ [][Next]_vars

\* the interpreter given one long line
InitLong ==
    /\ input \in LongInputs
    /\ HOME = "/home"
    /\ rd = 0
    /\ pc = "prompt"
    /\ exitStatus = -1
    /\ history = <<>>
    /\ cmd = NoCmd
    /\ stage = "none"
    /\ rscPid = 0
    /\ pid1 = 0
    /\ pid2 = 0
    /\ pfd = {}
    /\ children = <<>>
    /\ pipebuf = <<>>
    /\ forks = <<>>
    /\ reported = <<>>
    /\ cwd = HomeDir
    /\ envPWD = "/home"

SpecLong == InitLong /\ [][Next]_vars

\* ------------------------------------------------------------- vocabulary
Line == IF rd > 0 THEN input[rd] ELSE <<>>
Returned == rd > 0 /\ pc \in {"prompt", "exited"}
LineChildren == {p \in Pids : children[p].line = rd}
ForkedPids == {forks[k].pid : k \in 1..Len(forks)} \ {-1}
WordsOnly(s) == \A k \in 1..Len(s) : s[k] \notin Operators
Before(s, k) == SubSeq(s, 1, k - 1)
After(s, k) == SubSeq(s, k + 1, Len(s))

\* the positions k at which line = A op B with A and B non-empty word lists
\* and A not a builtin
SplitsAt(line, op) ==
    {k \in 2..(Len(line) - 1) :
        /\ line[k] = op
        /\ WordsOnly(Before(line, k))
        /\ WordsOnly(After(line, k))
        /\ line[1] \notin Builtins}
IsShape(line, op) == SplitsAt(line, op) # {}
SplitOf(line, op) == CHOOSE k \in SplitsAt(line, op) : TRUE
ChildrenOf(role) == {p \in LineChildren : children[p].role = role}
ForkCalls(role) == {k \in 1..Len(forks) : forks[k].role = role}

\* ------------------------------------------------------------------ C1
\* C1: on a line A && B, a child for B exists only once A's child has
\* terminated, never after A's child exited with a non-zero status, and when
\* A's child exited with status 0 the line does not return before the
\* process for B has been requested with B's words (it exists unless that
\* fork failed).
C1_SequenceRunsSecondOnSuccess ==
    IsShape(Line, "&&") =>
        LET k == SplitOf(Line, "&&")
        IN  /\ \A b \in ChildrenOf("second") :
                 /\ children[b].args = After(Line, k)
                 /\ \E a \in ChildrenOf("left") : a < b /\ Terminated(a)
            /\ \A a \in ChildrenOf("left") :
                 /\ children[a].args = Before(Line, k)
                 /\ (/\ Terminated(a)
                     /\ WIFEXITED(children[a].status)
                     /\ WEXITSTATUS(children[a].status) # 0)
                    => ChildrenOf("second") = {} /\ ForkCalls("second") = {}
            /\ (Returned /\ \E a \in ChildrenOf("left") :
                                children[a].status = StatusExited(0))
               => \E f \in ForkCalls("second") :
                     /\ forks[f].args = After(Line, k)
                     /\ ChildrenOf("second") = {forks[f].pid} \ {-1}

C1_Witness ==
    /\ Returned
    /\ IsShape(Line, "&&")
    /\ \E a \in ChildrenOf("left"), b \in ChildrenOf("second") :
         /\ children[a].status = StatusExited(0)
         /\ children[b].execd
         /\ children[b].st = "reaped"

\* ------------------------------------------------------------------ C2
\* C2: on a foreground line A | B, process creation is requested exactly
\* twice, once for each side; every child of the line comes from one of
\* these two requests, and the line does not return while one of them is
\* still alive, whatever their exit statuses.
C2_PipelineWaitsForBoth ==
    IsShape(Line, "|") =>
        /\ Cardinality(LineChildren) <= 2
        /\ LineChildren = ForkedPids
        /\ \A p \in LineChildren : children[p].role \in {"pipe1", "pipe2"}
        /\ Returned =>
             /\ \A p \in LineChildren : Terminated(p)
             /\ \/ /\ forks = <<>>
                   /\ reported = <<Report("perror", "pipe")>>
                \/ /\ Len(forks) = 2
                   /\ forks[1].role = "pipe1"
                   /\ forks[2].role = "pipe2"
                   /\ forks[2].args = After(Line, SplitOf(Line, "|"))

C2_Witness ==
    /\ Returned
    /\ IsShape(Line, "|")
    /\ Cardinality(LineChildren) = 2
    /\ \E p, q \in LineChildren :
         /\ children[p].role = "pipe1" /\ children[p].status = StatusExited(1)
         /\ children[q].role = "pipe2" /\ children[q].status = StatusExited(0)

\* ------------------------------------------------------------------ C3
\* C3: on a line A | B the first child is exec'd with exactly the words of
\* A and the second with exactly the words of B, in source order.
C3_PipelineArgsPreserved ==
    IsShape(Line, "|") =>
        LET k == SplitOf(Line, "|")
        IN  \A f \in 1..Len(forks) :
              /\ forks[f].role = "pipe1" => forks[f].args = Before(Line, k)
              /\ forks[f].role = "pipe2" => forks[f].args = After(Line, k)

\* ------------------------------------------------------------------ C4
\* C4: on a non-empty line of words only whose first word is not a builtin,
\* process creation is requested exactly once, with the line's tokens in
\* order, the only child of the line is the one that request made, and the
\* line does not return before that child has terminated.
IsSimpleLine(line) == line # <<>> /\ WordsOnly(line) /\ line[1] \notin Builtins

C4_SingleCommandWaits ==
    IsSimpleLine(Line) =>
        /\ LineChildren = ForkedPids
        /\ \A p \in LineChildren : children[p].args = Line /\ children[p].role = "single"
        /\ Len(forks) <= 1
        /\ Returned =>
             /\ Len(forks) = 1
             /\ forks[1].args = Line
             /\ \A p \in LineChildren : Terminated(p)

C4_Witness ==
    /\ Returned
    /\ IsSimpleLine(Line)
    /\ Len(Line) >= 2
    /\ \E p \in LineChildren : children[p].execd /\ children[p].st = "reaped"

\* ------------------------------------------------------------------ C5
\* C5: when the primary command is empty (empty line, or first token an
\* operator) the line is a silent no-op: no process creation is requested,
\* no child exists and nothing is reported.
HasEmptyPrimary(line) == line = <<>> \/ line[1] \in Operators

C5_EmptyPrimaryIsNoOp ==
    (rd > 0 /\ HasEmptyPrimary(Line)) =>
        /\ forks = <<>>
        /\ LineChildren = {}
        /\ reported = <<>>

\* ------------------------------------------------------------------ C6
\* C6: on a line A & one process creation is requested, for A; its pid is
\* reported, and the interpreter never waits for that child: the line
\* returns whether or not the child has terminated.
IsBackgroundLine(line) ==
    /\ Len(line) >= 2
    /\ line[Len(line)] = "&"
    /\ WordsOnly(Before(line, Len(line)))
    /\ line[1] \notin Builtins

C6_BackgroundNeverWaits ==
    IsBackgroundLine(Line) =>
        /\ pc \notin {"rsc_wait", "wait1", "wait2"}
        /\ LineChildren = ForkedPids
        /\ \A p \in LineChildren :
             /\ children[p].args = Before(Line, Len(Line))
             /\ children[p].st # "reaped"
             /\ reported = <<Report("bg", p)>>
        /\ Returned =>
             /\ Len(forks) = 1
             /\ forks[1].args = Before(Line, Len(Line))
             /\ forks[1].pid = -1 => reported = <<Report("perror", "fork")>>

C6_Witness ==
    /\ Returned
    /\ IsBackgroundLine(Line)
    /\ \E p \in LineChildren :
         /\ children[p].st = "running"
         /\ reported = <<Report("bg", p)>>

\* ------------------------------------------------------------------ C7
\* C7: a line whose first token is cd, pwd, history or exit is handled by
\* the builtin in the interpreter itself: no process creation is requested
\* and no child exists for that line, whatever tokens follow.
C7_BuiltinNeverForks ==
    (rd > 0 /\ Line # <<>> /\ Line[1] \in Builtins) =>
        /\ Returned
        /\ forks = <<>>
        /\ LineChildren = {}

\* ------------------------------------------------------------------ C8
\* C8: after n lines the history holds exactly the last min(n, 10) lines in
\* submission order, never more than 10; a line is in the history before it
\* is dispatched, so the listing of a history line is numbered from 1 and
\* ends with that history line itself.
LastLines(n) == IF n < HISTORY_SIZE THEN n ELSE HISTORY_SIZE

C8_HistoryIsLastTen ==
    /\ Len(history) = LastLines(rd)
    /\ Len(history) <= 10
    /\ \A k \in 1..Len(history) : history[k] = input[rd - Len(history) + k]
    /\ (Returned /\ IsBuiltinLine(cmd) /\ cmd.left[1] = "history") =>
          /\ Len(reported) = 1
          /\ reported[1].kind = "history"
          /\ LET listing == reported[1].val
             IN  /\ Len(listing) = LastLines(rd)
                 /\ \A k \in 1..Len(listing) :
                      listing[k] = <<k, input[rd - Len(listing) + k]>>
                 /\ listing[Len(listing)][2] = Line

C8_Witness ==
    /\ Returned
    /\ rd = 12
    /\ Line = <<"history">>
    /\ input[1] # input[3]
    /\ input[2] # input[3]
    /\ history[1] = input[3]
    /\ reported[1].val[10] = <<10, <<"history">>>>

\* ------------------------------------------------------------------ C9
\* C9: in a pipeline the second program receives the bytes the first one
\* wrote, in order and without loss, sees end-of-stream only after all of
\* them; once the interpreter has done its closes and the second child has
\* done its own, only the first child holds the write end, so after the
\* first child has terminated the reader is not blocked: a byte or the
\* end-of-stream is available.
Written ==
    LET A == ChildrenOf("pipe1")
    IN  IF A = {} THEN <<>>
        ELSE [k \in 1..children[CHOOSE a \in A : TRUE].written |-> k]

C9_PipeDeliversAndEnds ==
    IsShape(Line, "|") => \A b \in ChildrenOf("pipe2") :
        /\ children[b].got \o pipebuf = Written
        /\ children[b].eof =>
             /\ children[b].got = Written
             /\ \A a \in ChildrenOf("pipe1") : Terminated(a)
        /\ (pfd = {} /\ children[b].st # "forked") =>
             \A q \in Pids : children[q].w => q \in ChildrenOf("pipe1")
        /\ (/\ pfd = {}
            /\ children[b].st = "running"
            /\ \A a \in ChildrenOf("pipe1") : Terminated(a))
           => (pipebuf # <<>> \/ ~WriteEndOpen)

\* C9 as stated: the write end is held by the first child alone as soon as
\* both children exist and the interpreter has done its closes.
C9_AsStated ==
    IsShape(Line, "|") => \A b \in ChildrenOf("pipe2") :
        /\ children[b].got \o pipebuf = Written
        /\ children[b].eof => children[b].got = Written
        /\ (pfd = {} /\ ChildrenOf("pipe1") # {}) =>
             \A q \in Pids : children[q].w => q \in ChildrenOf("pipe1")

C9_Witness ==
    \E b \in ChildrenOf("pipe2") :
        /\ IsShape(Line, "|")
        /\ children[b].eof
        /\ Len(children[b].got) >= 2
        /\ \E a \in ChildrenOf("pipe1") : children[a].execd

\* ------------------------------------------------------------------ C10
\* C10: the interpreter leaves its loop only from the prompt, on end of
\* input or by the exit builtin, and then with status 0; a step that reports
\* an error (pipe, fork, chdir, getcwd, missing HOME) returns to the prompt,
\* and a child's exec failure never ends the interpreter.
ErrorKinds == {"perror", "stderr"}
HasError(rep) == \E k \in 1..Len(rep) : rep[k].kind \in ErrorKinds

LeavesLoopOnlyByEofOrExit ==
    (pc' = "exited" /\ pc # "exited") =>
        /\ pc = "prompt"
        /\ exitStatus' = 0
        /\ \/ rd = Len(input) /\ rd' = rd
           \/ rd' = rd + 1 /\ input[rd'] # <<>> /\ input[rd'][1] = "exit"

ErrorReturnsToPrompt ==
    (reported' # reported /\ HasError(reported')) => pc' = "prompt"

C10_OnlyEofOrExitEndsLoop ==
    /\ [](pc = "exited" <=> exitStatus = 0)
    /\ [](exitStatus \in {-1, 0})
    /\ [][LeavesLoopOnlyByEofOrExit /\ ErrorReturnsToPrompt]_vars

C10_Witness ==
    /\ rd = 2
    /\ pc = "rsc_fork"
    /\ Line = <<"a">>
    /\ input[1] = <<"cd">>
    /\ HOME = NULL
    /\ exitStatus = -1

\* ------------------------------------------------------------------ C11
\* C11: after a successful cd the next pwd reports exactly the path cd
\* resolved and published in PWD; a failed cd changes neither the working
\* directory nor PWD.  PWD changes only when cd succeeds, so what a pwd line
\* prints is compared with PWD.
IsPwdLine == IsBuiltinLine(cmd) /\ cmd.left[1] = "pwd"

C11_PwdReportsPublishedPath ==
    (Returned /\ IsPwdLine /\ reported # <<>>) => reported[1].val = envPWD

\* ------------------------------------------------------------------ C12
\* C12: for every line the classifier sets at most one of the pipeline flag
\* and the sequence flag.
C12_AtMostOneOperatorFlag ==
    rd > 0 => ~(cmd.in_pipe /\ cmd.has_second_command)

\* ------------------------------------------------------------------ C13
\* C13: the first & of a line ends the scan wherever it stands: the & is in
\* no argument list, and every token of every list stands before it.
Elements(s) == {s[k] : k \in 1..Len(s)}
FirstIndex(line, tokens) ==
    IF \E k \in 1..Len(line) : line[k] \in tokens
    THEN CHOOSE k \in 1..Len(line) :
            line[k] \in tokens /\ \A m \in 1..(k - 1) : line[m] \notin tokens
    ELSE 0
ArgLists == {cmd.left, cmd.right, cmd.second}

C13_FirstAmpersandEndsScan ==
    (rd > 0 /\ "&" \in Elements(Line)) =>
        \A list \in ArgLists :
            Elements(list) \ {UNINIT} \subseteq
                Elements(Before(Line, FirstIndex(Line, {"&"}))) \ Operators

\* ------------------------------------------------------------------ C14
\* C14: once a first | or && has been consumed, a later | or && is an
\* ordinary argument: the flags are those of the first operator alone and
\* the targeted list holds every token after the first operator, in order.
HasLaterOperator(line) ==
    LET k == FirstIndex(line, {"|", "&&"})
    IN  k > 0 /\ Elements(After(line, k)) \cap {"|", "&&"} # {}

C14_LaterOperatorIsArgument ==
    (rd > 0 /\ HasLaterOperator(Line) /\ "&" \notin Elements(Line)) =>
        LET k == FirstIndex(Line, {"|", "&&"})
        IN  /\ cmd.in_pipe <=> Line[k] = "|"
            /\ cmd.has_second_command <=> Line[k] = "&&"
            /\ (IF Line[k] = "|" THEN cmd.right ELSE cmd.second) = After(Line, k)

\* ------------------------------------------------------------------ C15
\* C15: for every line, the classifier writes no argument and no end marker
\* at an index >= MAX_ARGS of any of its argument lists.
C15_StoresWithinCapacity ==
    rd > 0 => ~cmd.oob

\* ------------------------------------------------------------------ C16
\* C16: there are lines for which the classifier yields background together
\* with pipeline or with sequence: whatever line the interpreter has read,
\* the lines it can be given include such a line.
C16_BackgroundCombines ==
    rd > 0 => \E l \in Lines :
                 LET c == Classify(l)
                 IN  c.background /\ (c.in_pipe \/ c.has_second_command)

\* ------------------------------------------------------------------ C17
\* C17: on a line A && B the secondary is started only after the primary
\* child was created and exited with status 0.
C17_SecondOnlyAfterNormalSuccess ==
    IsShape(Line, "&&") =>
        \A k \in ForkCalls("second") :
            \E a \in ChildrenOf("left") : children[a].status = StatusExited(0)

\* ------------------------------------------------------------------ C18
\* C18: a failed fork is reported, it is the last process creation of its
\* line, and the line returns with no child left running or unwaited.
C18_ForkFailureAborts ==
    /\ \A k \in 1..Len(forks) :
          forks[k].pid = -1 =>
             /\ k = Len(forks)
             /\ Report("perror", "fork") \in Elements(reported)
    /\ (Returned /\ \E k \in 1..Len(forks) : forks[k].pid = -1)
          => \A p \in LineChildren : children[p].st = "reaped"

\* ------------------------------------------------------------------ C19
\* C19: in every execution shape a child whose exec failed has reported the
\* failure and is terminated by exit with a non-zero status; a child is only
\* ever in its branch after fork, in the program it exec'd, or terminated,
\* so no child is in the read loop, and every step that changes the read
\* position, the history or the list of process creations is the
\* interpreter's: it changes no existing child.
ChildStates == {"forked", "running", "zombie", "reaped"}
ChildrenInReadLoop == {p \in Pids : children[p].st \notin ChildStates}

C19_FailedExecChildExits ==
    /\ ChildrenInReadLoop = {}
    /\ \A p \in Pids :
          /\ children[p].role \in {"single", "left", "second", "pipe1", "pipe2"}
          /\ children[p].err =>
                /\ Terminated(p)
                /\ ~children[p].execd
                /\ WIFEXITED(children[p].status)
                /\ WEXITSTATUS(children[p].status) # 0
          /\ children[p].st = "forked" => ~children[p].err

C19_Witness ==
    /\ Returned
    /\ \E p, q \in LineChildren :
          /\ children[p].role = "pipe1" /\ children[p].err
          /\ children[q].role = "pipe2" /\ children[q].err
    /\ \E p \in Pids : children[p].role \in {"single", "left"} /\ children[p].err

\* ------------------------------------------------------------------ C20
\* C20: the interpreter holds an end of a byte channel only between the
\* creation of the channel and its closes after the second process creation
\* attempt: it holds none while it waits and none when a line has returned,
\* whether the forks succeeded or failed.
C20_NoChannelEndKept ==
    /\ pc \notin {"fork1", "fork2", "close"} => pfd = {}
    /\ pc \in {"fork1", "fork2", "close"} => pfd = {"r", "w"}
    /\ Returned => pfd = {}

C20_Witness ==
    /\ Returned
    /\ rd = 2
    /\ \A k \in 1..2 : Classify(input[k]).in_pipe
    /\ Len(forks) = 2
    /\ forks[1].pid = -1
    /\ forks[2].pid # -1
    /\ pfd = {}

====
